---- MODULE Spec2Model ----
(***************************************************************************)
(* Interactive_Visuals (src/interactive_visuals.py): preset chart builders *)
(* over a tabular dataset.                                                 *)
(*                                                                         *)
(* Conventions of the model                                                *)
(*   - a column name is a sequence of one-character strings, so that name  *)
(*     cleaning is a computation on the name;                              *)
(*   - a text (a title, a series name) is a sequence of strings whose      *)
(*     concatenation is the text; the empty text "" is << >>;              *)
(*   - an optional argument is None or Some(v);                            *)
(*   - a data frame is [obj, index, cols]: obj is the identity of the      *)
(*     object ("caller" for the table handed to the constructor, "copy"    *)
(*     for a table made during a call), index the row labels, cols the     *)
(*     columns (name -> sequence of cells);                                *)
(*   - numbers with decimals are integers in hundredths: a Violation of    *)
(*     0.33 is 33, a percentage of 66.67 is 6667;                          *)
(*   - NaN is a cell of its own, and every comparison with it is false.    *)
(***************************************************************************)
EXTENDS Integers, Sequences, FiniteSets, TLC

VARIABLES
    self_df,    \* Interactive_Visuals._df: the caller's table (line 19)
    glob_df,    \* the module-level name df that line 231 reads
    out         \* the outcome of the last builder call

vars == <<self_df, glob_df, out>>

(***************************************************************************)
(* Values                                                                  *)
(***************************************************************************)
None == [some |-> FALSE]

Some(v) == [some |-> TRUE, val |-> v]

\* Python truthiness of an optional text or name: None and "" are falsy.
Truthy(o) == o.some /\ o.val # << >>

NaN == -999999

RangeOf(s) == {s[i] : i \in DOMAIN s}

RECURSIVE SumSeq(_)
SumSeq(s) == IF s = << >> THEN 0 ELSE Head(s) + SumSeq(Tail(s))

\* The required columns of the control chart, and the two columns barplot adds.
ColValues == <<"V", "a", "l", "u", "e", "s">>

ColMedian == <<"M", "e", "d", "i", "a", "n">>

ColUCL == <<"U", "C", "L">>

ColLCL == <<"L", "C", "L">>

ColViolation == <<"V", "i", "o", "l", "a", "t", "i", "o", "n">>

ColCount == <<"C", "o", "u", "n", "t">>

ColPercentage == <<"P", "e", "r", "c", "e", "n", "t", "a", "g", "e">>

(***************************************************************************)
(* Data frames                                                             *)
(***************************************************************************)
NRows(d) == Len(d.index)

HasCol(d, c) == c \in DOMAIN d.cols

\* d[mask]: the rows of d whose position satisfies keep, index labels kept.
RECURSIVE Positions(_, _, _)
Positions(n, i, keep) ==
    IF i > n THEN << >>
    ELSE (IF keep[i] THEN <<i>> ELSE << >>) \o Positions(n, i + 1, keep)

FilterRows(d, keep) ==
    LET pos == Positions(NRows(d), 1, keep) IN
    [obj |-> "copy",
     index |-> [k \in DOMAIN pos |-> d.index[pos[k]]],
     cols |-> [c \in DOMAIN d.cols |-> [k \in DOMAIN pos |-> d.cols[c][pos[k]]]]]

\* Elementwise comparisons of a column with a number; NaN compares false.
GtMask(col, t) == [i \in DOMAIN col |-> col[i] # NaN /\ col[i] > t]

LeMask(col, t) == [i \in DOMAIN col |-> col[i] # NaN /\ col[i] <= t]

(***************************************************************************)
(* Outcomes of a call                                                      *)
(***************************************************************************)
NoFig == [kind |-> "none"]

\* The call returned fig.
Returned(call, fig) ==
    [call |-> call, raised |-> "None", fig |-> fig, created |-> TRUE, built |-> << >>]

\* The call raised err; created tells whether a figure object existed by then and
\* built holds the series constructed by then (locals, lost with the exception).
Raised(call, err, created, built) ==
    [call |-> call, raised |-> err, fig |-> NoFig, created |-> created, built |-> built]

NoCall == [call |-> [fn |-> "none"], raised |-> "None", fig |-> NoFig,
           created |-> FALSE, built |-> << >>]

(***************************************************************************)
(* control_chart_ADTK                                                      *)
(***************************************************************************)
LowMax == 33

MedMax == 67

Scatter(name, mode, x, y) == [name |-> name, mode |-> mode, x |-> x, y |-> y]

LtMask(col, t) == [i \in DOMAIN col |-> col[i] # NaN /\ col[i] < t]

\* ViolBands with the low band cut by < instead of <=: 0.33 falls in no band.
ViolBandsLowStrict(d) ==
    LET df_viol == FilterRows(d, GtMask(d.cols[ColViolation], 0))
        df_viol_low == FilterRows(df_viol, LtMask(df_viol.cols[ColViolation], LowMax))
        df_viol_med0 == FilterRows(df_viol, LeMask(df_viol.cols[ColViolation], MedMax))
        df_viol_med == FilterRows(df_viol_med0, GtMask(df_viol_med0.cols[ColViolation], LowMax))
        df_viol_high == FilterRows(df_viol, GtMask(df_viol.cols[ColViolation], MedMax))
    IN [viol |-> df_viol, low |-> df_viol_low, med |-> df_viol_med, high |-> df_viol_high]

\* Lines 305-309: the violation criteria.
ViolBands(d) ==
    LET df_viol == FilterRows(d, GtMask(d.cols[ColViolation], 0))
        df_viol_low == FilterRows(df_viol, LeMask(df_viol.cols[ColViolation], LowMax))
        df_viol_med0 == FilterRows(df_viol, LeMask(df_viol.cols[ColViolation], MedMax))
        df_viol_med == FilterRows(df_viol_med0, GtMask(df_viol_med0.cols[ColViolation], LowMax))
        df_viol_high == FilterRows(df_viol, GtMask(df_viol.cols[ColViolation], MedMax))
    IN [viol |-> df_viol, low |-> df_viol_low, med |-> df_viol_med, high |-> df_viol_high]

\* Lines 355-398: the four marker series. The low series takes its y from df_viol.
ViolTraces(b) ==
    << Scatter(<<"Violation">>, "markers", b.viol.index, b.viol.cols[ColValues]),
       Scatter(<<"Low Probability of Violation">>, "markers",
               b.low.index, b.viol.cols[ColValues]),
       Scatter(<<"Medium Probability of Violation">>, "markers",
               b.med.index, b.med.cols[ColValues]),
       Scatter(<<"High Probability of Violation">>, "markers",
               b.high.index, b.high.cols[ColValues]) >>

\* A line series over the whole table (lines 312-320, 325-332, 334-342, 344-353).
LineTrace(d, name, mode, col) == Scatter(name, mode, d.index, d.cols[col])

\* control_chart_ADTK that skips a limit line whose column is missing and returns
\* the chart built from the rest.
control_chart_skip_missing(d, call, title, value_name) ==
    IF ~HasCol(d, ColViolation) THEN Raised(call, "KeyError", FALSE, << >>)
    ELSE IF ~HasCol(d, ColValues) THEN Raised(call, "KeyError", FALSE, << >>)
    ELSE
      LET b == ViolBands(d)
          t1 == <<LineTrace(d, value_name, "markers+lines", ColValues)>>
          t2 == IF HasCol(d, ColMedian)
                THEN Append(t1, LineTrace(d, <<"Median">>, "lines", ColMedian)) ELSE t1
          t3 == IF HasCol(d, ColUCL)
                THEN Append(t2, LineTrace(d, <<"Control Limits">>, "lines", ColUCL)) ELSE t2
          t4 == IF HasCol(d, ColLCL)
                THEN Append(t3, LineTrace(d, <<"LCL">>, "lines", ColLCL)) ELSE t3
      IN Returned(call, [kind |-> "control", title |-> title,
                         template |-> "ggplot2",
                         traces |-> t4 \o ViolTraces(b)])

\* Lines 304-400. The columns are read in the order Violation (305), Values (316),
\* Median (329), UCL (338), LCL (349); reading a missing column raises KeyError.
\* go.Figure is called at line 311, once its first series has been built.
control_chart_result(d, call, title, value_name) ==
    IF ~HasCol(d, ColViolation) THEN Raised(call, "KeyError", FALSE, << >>)
    ELSE IF ~HasCol(d, ColValues) THEN Raised(call, "KeyError", FALSE, << >>)
    ELSE
      LET b == ViolBands(d)
          t1 == <<LineTrace(d, value_name, "markers+lines", ColValues)>>
      IN
      IF ~HasCol(d, ColMedian) THEN Raised(call, "KeyError", TRUE, t1)
      ELSE
        LET t2 == Append(t1, LineTrace(d, <<"Median">>, "lines", ColMedian)) IN
        IF ~HasCol(d, ColUCL) THEN Raised(call, "KeyError", TRUE, t2)
        ELSE
          LET t3 == Append(t2, LineTrace(d, <<"Control Limits">>, "lines", ColUCL)) IN
          IF ~HasCol(d, ColLCL) THEN Raised(call, "KeyError", TRUE, t3)
          ELSE
            LET t4 == Append(t3, LineTrace(d, <<"LCL">>, "lines", ColLCL)) IN
            Returned(call, [kind |-> "control", title |-> title,
                            template |-> "ggplot2",
                            traces |-> t4 \o ViolTraces(b)])

control_chart_ADTK(title, value_name) ==
    /\ out' = control_chart_result(self_df,
                  [fn |-> "control_chart_ADTK", title |-> title,
                   value_name |-> value_name],
                  title, value_name)
    /\ UNCHANGED <<self_df, glob_df>>

(***************************************************************************)
(* Control-chart tables                                                    *)
(***************************************************************************)
MaxPoints == 2

ViolationLevels == {NaN, 0, 1, 33, 34, 50, 67, 68, 100}

ValueLevels == {10, 20}

RequiredCols == {ColValues, ColMedian, ColUCL, ColLCL, ColViolation}

\* The table with the rows 1..n as timestamps and the columns present.
CCFrame(n, present, viol, vals) ==
    [obj |-> "caller",
     index |-> [i \in 1..n |-> i],
     cols |-> [c \in present |->
                  IF c = ColViolation THEN viol
                  ELSE IF c = ColValues THEN vals
                  ELSE IF c = ColMedian THEN [i \in 1..n |-> 50]
                  ELSE IF c = ColUCL THEN [i \in 1..n |-> 90]
                  ELSE [i \in 1..n |-> 5]]]

\* All of the required columns, or all but one.
ColumnChoices == {RequiredCols} \cup {RequiredCols \ {c} : c \in RequiredCols}

DefaultCCTitle == <<"Control Chart Example">>

DefaultValueName == <<"Actuals">>

InitCC ==
    /\ \E n \in 1..MaxPoints, present \in ColumnChoices :
         \E viol \in [1..n -> ViolationLevels], vals \in [1..n -> ValueLevels] :
            self_df = CCFrame(n, present, viol, vals)
    /\ glob_df = None
    /\ out = NoCall

NextCC ==
    \E title \in {DefaultCCTitle, <<"T">>}, value_name \in {DefaultValueName} :
        control_chart_ADTK(title, value_name)

SpecCC == InitCC /\ [][NextCC]_vars

(***************************************************************************)
(* clean_varname (utils, not part of the source at hand)                   *)
(***************************************************************************)
Separators == {" ", ".", "-"}

RECURSIVE DropSeps(_)
DropSeps(s) ==
    IF s # << >> /\ Head(s) \in Separators THEN DropSeps(Tail(s)) ELSE s

\* The name with leading and trailing separators removed and every inner run of
\* whitespace or punctuation collapsed into one "_".
RECURSIVE CleanName(_)
CleanName(s) ==
    IF s = << >> THEN << >>
    ELSE IF Head(s) \in Separators
         THEN (IF DropSeps(s) = << >> THEN << >>
               ELSE <<"_">> \o CleanName(DropSeps(s)))
         ELSE <<Head(s)>> \o CleanName(Tail(s))

WithCol(cols, c, cells) ==
    [k \in DOMAIN cols \cup {c} |-> IF k = c THEN cells ELSE cols[k]]

\* clean_varname(df, var): fails when df has no column var; otherwise the cleaned
\* name and a copy of df that also carries the column under the cleaned name.
clean_varname(d, var) ==
    IF ~HasCol(d, var) THEN [ok |-> FALSE]
    ELSE LET clean == CleanName(DropSeps(var)) IN
         [ok |-> TRUE,
          name |-> clean,
          df |-> [obj |-> "copy", index |-> d.index,
                  cols |-> WithCol(d.cols, clean, d.cols[var])]]

(***************************************************************************)
(* barplot                                                                 *)
(***************************************************************************)
\* Group keys are tuples of cells; groupby orders them lexicographically.
RECURSIVE KeyLess(_, _)
KeyLess(a, b) ==
    IF a = << >> \/ b = << >> THEN FALSE
    ELSE IF Head(a) # Head(b) THEN Head(a) < Head(b)
    ELSE KeyLess(Tail(a), Tail(b))

RECURSIVE SortKeys(_)
SortKeys(S) ==
    IF S = {} THEN << >>
    ELSE LET m == CHOOSE k \in S : \A j \in S \ {k} : KeyLess(k, j)
         IN <<m>> \o SortKeys(S \ {m})

RowKey(d, by, i) == [j \in DOMAIN by |-> d.cols[by[j]][i]]

\* df.groupby(by).size(): the sorted keys that occur and the number of rows of each.
GroupSize(d, by) ==
    LET keys == SortKeys({RowKey(d, by, i) : i \in 1..NRows(d)})
    IN [keys |-> keys,
        size |-> [k \in DOMAIN keys |->
                     Cardinality({i \in 1..NRows(d) : RowKey(d, by, i) = keys[k]})]]

\* round(v, 2) of v = num / den (in units; the result in hundredths), ties to even.
Round2(num, den) ==
    LET q == (100 * num) \div den
        r == (100 * num) % den
    IN IF 2 * r < den THEN q
       ELSE IF 2 * r > den THEN q + 1
       ELSE IF q % 2 = 0 THEN q ELSE q + 1

\* size.groupby(level = 0).apply(lambda x: 100 * x / float(x.sum())): each size
\* as a share (num, den) of the sum of the sizes with the same first key cell.
Level0Share(g) ==
    [k \in DOMAIN g.keys |->
        LET same == {j \in DOMAIN g.keys : g.keys[j][1] = g.keys[k][1]}
            total == SumSeq([j \in 1..Len(g.keys) |-> IF j \in same THEN g.size[j] ELSE 0])
        IN [num |-> 100 * g.size[k], den |-> total]]

ResetIndex(k) == [i \in 1..k |-> i - 1]

\* Lines 117-121 with the percentages left unrounded (floor to hundredths).
stack_color_no_round(d, x, color) ==
    LET g == GroupSize(d, <<x, color>>)
        sh == Level0Share(g)
        base == [c \in {x, color} |->
                    [k \in DOMAIN g.keys |-> g.keys[k][IF c = x THEN 1 ELSE 2]]]
    IN [obj |-> "copy", index |-> ResetIndex(Len(g.keys)),
        cols |-> WithCol(WithCol(base, ColCount, g.size), ColPercentage,
                         [k \in DOMAIN g.keys |-> (100 * sh[k].num) \div sh[k].den])]

\* Lines 117-121: the aggregate of the stacked or grouped bar plot.
stack_color(d, x, color) ==
    LET g == GroupSize(d, <<x, color>>)
        sh == Level0Share(g)
        base == [c \in {x, color} |->
                    [k \in DOMAIN g.keys |-> g.keys[k][IF c = x THEN 1 ELSE 2]]]
    IN [obj |-> "copy", index |-> ResetIndex(Len(g.keys)),
        cols |-> WithCol(WithCol(base, ColCount, g.size), ColPercentage,
                         [k \in DOMAIN g.keys |-> Round2(sh[k].num, sh[k].den)])]

\* Lines 176-179: the aggregate of the basic bar plot. The sizes are grouped by
\* their only key level again, so each is divided by itself; nothing is rounded,
\* and the quotient 100.0 is exact.
stack_basic(d, x) ==
    LET g == GroupSize(d, <<x>>)
        sh == Level0Share(g)
    IN [obj |-> "copy", index |-> ResetIndex(Len(g.keys)),
        cols |-> WithCol(WithCol([c \in {x} |-> [k \in DOMAIN g.keys |-> g.keys[k][1]]],
                                 ColCount, g.size),
                         ColPercentage,
                         [k \in DOMAIN g.keys |-> (100 * sh[k].num) \div sh[k].den])]

\* Lines 126-130.
bar_color_title(has_title, title, x_clean, color_clean) ==
    IF has_title
    THEN (IF ~Truthy(title)
          THEN Some(<<"Bar Plot of ">> \o x_clean \o <<" and ">> \o color_clean)
          ELSE title)
    ELSE None

\* Lines 182-184.
bar_basic_title(has_title, title, x_clean) ==
    IF has_title /\ ~Truthy(title) THEN Some(<<"Bar plot of ">> \o x_clean) ELSE title

\* Lines 134-171 with the text labels attached in every variation.
bar_color_fig_always_text(df_clean, x_clean, color_clean, o, title) ==
    LET value == IF o.is_percent THEN ColPercentage ELSE ColCount IN
    [kind |-> "bar", data |-> df_clean,
     x |-> IF o.is_horizontal THEN value ELSE x_clean,
     y |-> IF o.is_horizontal THEN x_clean ELSE value,
     color |-> Some(color_clean),
     text |-> Some(df_clean.cols[value]),
     title |-> title, template |-> o.template, barmode |-> Some(o.barmode),
     opacity |-> Some(o.opacity)]

\* Lines 134-171: the eight variations of the stacked or grouped bar plot.
bar_color_fig(df_clean, x_clean, color_clean, o, title) ==
    LET value == IF o.is_percent THEN ColPercentage ELSE ColCount IN
    [kind |-> "bar", data |-> df_clean,
     x |-> IF o.is_horizontal THEN value ELSE x_clean,
     y |-> IF o.is_horizontal THEN x_clean ELSE value,
     color |-> Some(color_clean),
     text |-> IF o.show_num THEN Some(df_clean.cols[value]) ELSE None,
     title |-> title, template |-> o.template, barmode |-> Some(o.barmode),
     opacity |-> Some(o.opacity)]

\* Lines 186-191: the basic bar plot always shows Count, without labels.
bar_basic_fig(df_clean, x_clean, o, title) ==
    [kind |-> "bar", data |-> df_clean,
     x |-> IF o.is_horizontal THEN ColCount ELSE x_clean,
     y |-> IF o.is_horizontal THEN x_clean ELSE ColCount,
     color |-> None, text |-> None,
     title |-> title, template |-> o.template, barmode |-> None, opacity |-> None]

\* Lines 116-192. o is the record of the arguments.
barplot_result(d, o) ==
    LET call == [fn |-> "barplot"] @@ o IN
    IF Truthy(o.color)
    THEN
      IF ~HasCol(d, o.x) \/ ~HasCol(d, o.color.val)
      THEN Raised(call, "KeyError", FALSE, << >>)
      ELSE
        LET df_stack == stack_color(d, o.x, o.color.val)
            cx == clean_varname(df_stack, o.x)
            cc == clean_varname(cx.df, o.color.val)
        IN Returned(call, bar_color_fig(cc.df, cx.name, cc.name, o,
                              bar_color_title(o.has_title, o.title, cx.name, cc.name)))
    ELSE
      IF ~HasCol(d, o.x)
      THEN Raised(call, "KeyError", FALSE, << >>)
      ELSE
        LET df_stack == stack_basic(d, o.x)
            cx == clean_varname(df_stack, o.x)
        IN Returned(call, bar_basic_fig(cx.df, cx.name, o,
                              bar_basic_title(o.has_title, o.title, cx.name)))

barplot(o) ==
    /\ out' = barplot_result(self_df, o)
    /\ UNCHANGED <<self_df, glob_df>>

(***************************************************************************)
(* Bar-plot tables                                                         *)
(***************************************************************************)
MaxRows == 6

ColX == <<"x", " ", "1">>

ColC == <<"c">>

\* Category cells are numbers: 1, 2, 3 for the primary column and 1 (A), 2 (B), ...
\* for the secondary one.
PrimaryLevels == {1, 2, 3}

SecondaryLevels == {1, 2}

WideSecondaryLevels == {1, 2, 3, 4, 5, 6}

\* The nondecreasing sequences of length n over 1..m.
RECURSIVE NonDecreasing(_, _)
NonDecreasing(n, m) ==
    IF n = 0 THEN {<< >>}
    ELSE UNION { {Append(s, v) : v \in (IF s = << >> THEN 1 ELSE s[Len(s)])..m}
                 : s \in NonDecreasing(n - 1, m) }

\* The tables of 1..MaxRows rows over the columns ColX and ColC with cells from
\* P and S, rows in key order (the aggregate does not depend on the row order).
BarFrames(P, S) ==
    LET kinds == SortKeys(P \X S) IN
    { [obj |-> "caller",
       index |-> [i \in DOMAIN r |-> i - 1],
       cols |-> [c \in {ColX, ColC} |->
                    [i \in DOMAIN r |-> kinds[r[i]][IF c = ColX THEN 1 ELSE 2]]]]
      : r \in UNION {NonDecreasing(n, Len(kinds)) : n \in 1..MaxRows} }

BarArgs ==
    [x : {ColX}, color : {None, Some(ColC)}, opacity : {100}, template : {"ggplot2"},
     has_title : {TRUE}, barmode : {"stack"}, is_horizontal : {FALSE},
     title : {None}, is_percent : BOOLEAN, show_num : {FALSE}]

InitBar ==
    /\ self_df \in BarFrames(PrimaryLevels, SecondaryLevels)
                   \cup BarFrames({1}, WideSecondaryLevels)
    /\ glob_df = None
    /\ out = NoCall

NextBar == \E o \in BarArgs : barplot(o)

SpecBar == InitBar /\ [][NextBar]_vars

(***************************************************************************)
(* histogram, scatterplot, linechart                                       *)
(***************************************************************************)
\* "if color: color_clean, df_clean = clean_varname(df_clean, var = color)
\*  else: color_clean = color" (lines 56-59 and the like).
clean_optional(d, opt) ==
    IF Truthy(opt)
    THEN LET r == clean_varname(d, opt.val) IN
         IF r.ok THEN [ok |-> TRUE, name |-> Some(r.name), df |-> r.df]
         ELSE [ok |-> FALSE]
    ELSE [ok |-> TRUE, name |-> opt, df |-> d]

\* Lines 73-75 with an explicit title ignored.
hist_title_always_default(has_title, title, x_clean) ==
    IF has_title THEN Some(<<"Histogram of ">> \o x_clean) ELSE title

\* Lines 73-75.
hist_title(has_title, title, x_clean) ==
    IF has_title /\ ~Truthy(title) THEN Some(<<"Histogram of ">> \o x_clean) ELSE title

\* Lines 239-241.
scatter_title(has_title, title, x_clean, y_clean) ==
    IF has_title /\ ~Truthy(title)
    THEN Some(<<"Scatter Plot of ">> \o x_clean \o <<" and ">> \o y_clean)
    ELSE title

\* Lines 277-279.
line_title(has_title, title, y_clean) ==
    IF has_title /\ ~Truthy(title) THEN Some(<<"Time Series of ">> \o y_clean) ELSE title

\* Lines 53-85.
histogram_result(d, o) ==
    LET call == [fn |-> "histogram"] @@ o
        cx == clean_varname(d, o.x)
    IN IF ~cx.ok THEN Raised(call, "KeyError", FALSE, << >>)
       ELSE LET c1 == clean_optional(cx.df, o.color) IN
       IF ~c1.ok THEN Raised(call, "KeyError", FALSE, << >>)
       ELSE LET c2 == clean_optional(c1.df, o.y) IN
       IF ~c2.ok THEN Raised(call, "KeyError", FALSE, << >>)
       ELSE LET c3 == clean_optional(c2.df, o.facet_col) IN
       IF ~c3.ok THEN Raised(call, "KeyError", FALSE, << >>)
       ELSE LET c4 == clean_optional(c3.df, o.facet_row) IN
       IF ~c4.ok THEN Raised(call, "KeyError", FALSE, << >>)
       ELSE Returned(call,
              [kind |-> "histogram", data |-> c4.df,
               x |-> IF o.is_horizontal THEN c2.name ELSE Some(cx.name),
               y |-> IF o.is_horizontal THEN Some(cx.name) ELSE c2.name,
               color |-> c1.name, title |-> hist_title(o.has_title, o.title, cx.name),
               marginal |-> o.marginal, template |-> o.template,
               opacity |-> o.opacity, nbins |-> o.bins,
               facet_col |-> c3.name, facet_row |-> c4.name])

histogram(o) ==
    /\ out' = histogram_result(self_df, o)
    /\ UNCHANGED <<self_df, glob_df>>

\* Lines 227-228 working on the caller's table itself instead of on a copy.
scatter_frame_in_place(d, x, y) ==
    IF ~HasCol(d, x) \/ ~HasCol(d, y) THEN [ok |-> FALSE]
    ELSE [ok |-> TRUE, x_clean |-> CleanName(DropSeps(x)), y_clean |-> CleanName(DropSeps(y)),
          df |-> [d EXCEPT !.cols = WithCol(WithCol(d.cols, CleanName(DropSeps(x)), d.cols[x]),
                                            CleanName(DropSeps(y)), d.cols[y])]]

\* Lines 227-228 (and 269-270): the two columns cleaned one after the other.
scatter_frame(d, x, y) ==
    LET cx == clean_varname(d, x) IN
    IF ~cx.ok THEN [ok |-> FALSE]
    ELSE LET cy == clean_varname(cx.df, y) IN
         IF ~cy.ok THEN [ok |-> FALSE]
         ELSE [ok |-> TRUE, x_clean |-> cx.name, y_clean |-> cy.name, df |-> cy.df]

\* np.random.normal(0, sd, size = n): n draws; a zero scale yields zeros only.
NoiseLevels(sd) == IF sd = 0 THEN {0} ELSE {-sd, sd}

NoiseVectors(g, o) ==
    IF o.jitter /\ g.some THEN [1..g.val -> NoiseLevels(o.jitter_sd)] ELSE {<< >>}

\* df_clean[c] + np.random.normal(0, jitter_sd, size = len(df)) (lines 231-232):
\* elementwise for equal lengths; a noise of length 1 is either
\* broadcast or refused, depending on the library version; any other length fails.
CanAdd(col, noise, broadcast) ==
    Len(noise) = Len(col) \/ (Len(noise) = 1 /\ broadcast)

AddNoise(col, noise) ==
    [i \in DOMAIN col |-> col[i] + (IF Len(noise) = Len(col) THEN noise[i] ELSE noise[1])]


\* Lines 227-245. g is the module-level df (None when the name is not defined);
\* nx, ny are the two noise draws. The result carries the outcome and the
\* caller's table as the call leaves it: df_clean[...] = ... writes into the
\* object df_clean names.
scatterplot_result(d, g, o, nx, ny, broadcast) ==
    LET call == [fn |-> "scatterplot"] @@ o
        f == scatter_frame(d, o.x, o.y)
    IN
    IF ~f.ok THEN [out |-> Raised(call, "KeyError", FALSE, << >>), caller |-> d]
    ELSE IF o.jitter /\ ~g.some
    THEN [out |-> Raised(call, "NameError", FALSE, << >>),
          caller |-> IF f.df.obj = "caller" THEN f.df ELSE d]
    ELSE IF o.jitter /\ ~CanAdd(f.df.cols[f.x_clean], nx, broadcast)
    THEN [out |-> Raised(call, "ValueError", FALSE, << >>),
          caller |-> IF f.df.obj = "caller" THEN f.df ELSE d]
    ELSE
      LET j1 == IF o.jitter
                THEN [f.df EXCEPT !.cols[f.x_clean] =
                          AddNoise(f.df.cols[f.x_clean], nx)]
                ELSE f.df
          j2 == IF o.jitter
                THEN [j1 EXCEPT !.cols[f.y_clean] =
                          AddNoise(j1.cols[f.y_clean], ny)]
                ELSE j1
          cc == clean_optional(j2, o.color)
          caller == IF j2.obj = "caller" THEN j2 ELSE d
      IN IF ~cc.ok THEN [out |-> Raised(call, "KeyError", FALSE, << >>), caller |-> caller]
         ELSE [out |-> Returned(call,
                         [kind |-> "scatter", data |-> cc.df,
                          x |-> f.x_clean, y |-> f.y_clean, color |-> cc.name,
                          title |-> scatter_title(o.has_title, o.title, f.x_clean, f.y_clean),
                          marginal_x |-> o.marg_x, marginal_y |-> o.marg_y,
                          trendline |-> o.trendline, template |-> o.template,
                          opacity |-> o.opacity]),
               caller |-> caller]

\* The library versions differ only where a noise of length 1 meets a longer column.
BroadcastChoices(d, g, o) ==
    IF o.jitter /\ g.some /\ g.val = 1 /\ NRows(d) # 1 THEN BOOLEAN ELSE {FALSE}

scatterplot(o) ==
    \E nx \in NoiseVectors(glob_df, o), ny \in NoiseVectors(glob_df, o),
       broadcast \in BroadcastChoices(self_df, glob_df, o) :
        LET r == scatterplot_result(self_df, glob_df, o, nx, ny, broadcast) IN
        /\ out' = r.out
        /\ self_df' = r.caller
        /\ UNCHANGED glob_df

\* Lines 269-283.
linechart_result(d, o) ==
    LET call == [fn |-> "linechart"] @@ o
        f == scatter_frame(d, o.x, o.y)
    IN IF ~f.ok THEN Raised(call, "KeyError", FALSE, << >>)
       ELSE LET cc == clean_optional(f.df, o.color) IN
       IF ~cc.ok THEN Raised(call, "KeyError", FALSE, << >>)
       ELSE Returned(call,
              [kind |-> "line", data |-> cc.df, x |-> f.x_clean, y |-> f.y_clean,
               color |-> cc.name, template |-> o.template,
               title |-> line_title(o.has_title, o.title, f.y_clean)])

linechart(o) ==
    /\ out' = linechart_result(self_df, o)
    /\ UNCHANGED <<self_df, glob_df>>

(***************************************************************************)
(* Tables and arguments of the general specifications                      *)
(***************************************************************************)
MaxXY == 2

ColY == <<"y">>

\* The tables of n rows over ColX, ColY and ColC.
XYFrames(n) ==
    { [obj |-> "caller", index |-> [i \in 1..n |-> i - 1],
       cols |-> [c \in {ColX, ColY, ColC} |->
                    IF c = ColX THEN xs ELSE IF c = ColY THEN ys ELSE [i \in 1..n |-> 1]]]
      : xs \in [1..n -> {1, 2}], ys \in [1..n -> {5, 7}] }

\* x = [1,1,1,2,2,3], c = [A,A,B,A,B,B], with a numeric column beside them.
ExampleFrame ==
    [obj |-> "caller", index |-> <<0, 1, 2, 3, 4, 5>>,
     cols |-> [c \in {ColX, ColY, ColC} |->
                  IF c = ColX THEN <<1, 1, 1, 2, 2, 3>>
                  ELSE IF c = ColY THEN <<5, 5, 7, 7, 5, 7>>
                  ELSE <<1, 1, 2, 1, 2, 2>>]]

\* A control-chart table of one point.
OnePointFrame ==
    [obj |-> "caller", index |-> <<1>>,
     cols |-> [c \in RequiredCols |->
                  IF c = ColViolation THEN <<50>> ELSE IF c = ColValues THEN <<10>>
                  ELSE IF c = ColMedian THEN <<50>> ELSE IF c = ColUCL THEN <<90>>
                  ELSE <<5>>]]

TitleChoices == {None, Some(<< >>), Some(<<"T">>)}

HistArgs(titles, flags) ==
    [x : {ColX}, y : {None}, is_horizontal : flags, color : {None, Some(ColC)},
     facet_col : {None}, facet_row : {None}, bins : {20}, opacity : {100},
     marginal : {None}, template : {"ggplot2"}, has_title : flags, title : titles]
    \cup
    [x : {ColX}, y : {Some(ColY)}, is_horizontal : flags, color : {Some(ColC)},
     facet_col : {Some(ColC)}, facet_row : {Some(ColC)}, bins : {20}, opacity : {100},
     marginal : {None}, template : {"ggplot2"}, has_title : {TRUE}, title : {None}]

BarAllArgs(titles, flags) ==
    [x : {ColX}, color : {None, Some(ColC)}, opacity : {100}, template : {"ggplot2"},
     has_title : flags, barmode : {"stack"}, is_horizontal : BOOLEAN,
     title : titles, is_percent : BOOLEAN, show_num : BOOLEAN]

ScatterArgs(titles, flags, colors, jitters, sds) ==
    [x : {ColX}, y : {ColY}, color : colors, jitter : jitters,
     jitter_sd : sds, marg_x : {None}, marg_y : {None}, trendline : {None},
     opacity : {100}, template : {"ggplot2"}, has_title : flags, title : titles]

LineArgs(titles, flags) ==
    [x : {ColX}, y : {ColY}, color : {None, Some(ColC)}, template : {"ggplot2"},
     has_title : flags, title : titles]

\* Every builder with every choice of title arguments.
Init ==
    /\ self_df \in {ExampleFrame, OnePointFrame} \cup XYFrames(1)
    /\ glob_df = None
    /\ out = NoCall

Next ==
    \/ \E o \in HistArgs(TitleChoices, BOOLEAN) : histogram(o)
    \/ \E o \in BarAllArgs(TitleChoices, BOOLEAN) : barplot(o)
    \/ \E o \in ScatterArgs(TitleChoices, BOOLEAN, {None, Some(ColC)}, {FALSE}, {10}) : scatterplot(o)
    \/ \E o \in LineArgs(TitleChoices, BOOLEAN) : linechart(o)
    \/ control_chart_ADTK(DefaultCCTitle, DefaultValueName)

Spec == Init /\ [][Next]_vars

\* Every builder with its default title arguments, scatterplot with and without
\* jitter, with the module-level df undefined or a table of 0..MaxXY rows.
InitJitter ==
    /\ self_df \in {OnePointFrame} \cup UNION {XYFrames(n) : n \in 1..MaxXY}
    /\ glob_df \in {None} \cup {Some(n) : n \in 0..MaxXY}
    /\ out = NoCall

NextJitter ==
    \/ \E o \in HistArgs({None}, {TRUE}) : histogram(o)
    \/ \E o \in BarAllArgs({None}, {TRUE}) : o.is_horizontal /\ o.show_num /\ barplot(o)
    \/ \E o \in ScatterArgs({None}, {TRUE}, {None}, BOOLEAN, {0, 10}) : scatterplot(o)
    \/ \E o \in LineArgs({None}, {TRUE}) : linechart(o)
    \/ control_chart_ADTK(DefaultCCTitle, DefaultValueName)

SpecJitter == InitJitter /\ [][NextJitter]_vars

(***************************************************************************)
(* Claims                                                                  *)
(***************************************************************************)
IsControlChart == out.raised = "None" /\ out.fig.kind = "control"

\* The positions (= timestamps, in the tables of CCFrames) a marker series covers.
BandRows(k) == RangeOf(out.fig.traces[k].x)

ViolationAt(i) == self_df.cols[ColViolation][i]

Positive(v) == v # NaN /\ v > 0

\* C1: in the chart of control_chart_ADTK every row with Violation > 0 is in
\* exactly one of the bands low (0 < v <= 0.33), medium (0.33 < v <= 0.67) and
\* high (v > 0.67), a row with Violation 0 or absent is in none, and the three
\* bands together are the combined violation set {Violation > 0}; 0.33 is low
\* only, 0.67 and 0.5 are medium only.
C1_BandsPartition ==
    IsControlChart =>
        LET all == BandRows(5)
            low == BandRows(6)
            med == BandRows(7)
            high == BandRows(8)
        IN /\ \A i \in 1..NRows(self_df) :
                LET v == ViolationAt(i) IN
                IF Positive(v)
                THEN /\ (i \in low) = (v <= 33)
                     /\ (i \in med) = (v > 33 /\ v <= 67)
                     /\ (i \in high) = (v > 67)
                     /\ Cardinality({k \in 6..8 : i \in BandRows(k)}) = 1
                ELSE i \notin (low \cup med \cup high \cup all)
           /\ low \cup med \cup high = all
           /\ all = {i \in 1..NRows(self_df) : Positive(ViolationAt(i))}
           /\ \A k \in 5..8 : Len(out.fig.traces[k].x) = Cardinality(BandRows(k))

\* A chart of a table whose rows sit on the two boundaries 0.33 and 0.67.
C1_Witness ==
    /\ IsControlChart
    /\ NRows(self_df) = 2
    /\ ViolationAt(1) = 33
    /\ ViolationAt(2) = 67
    /\ BandRows(6) = {1}
    /\ BandRows(7) = {2}

MissingCols == RequiredCols \ DOMAIN self_df.cols

IsControlCall == out.call.fn = "control_chart_ADTK"

\* C9 as claimed: with a required column missing, control_chart_ADTK fails
\* before any series is built and before any figure is created.
C9_FailsBeforePlotting ==
    (IsControlCall /\ MissingCols # {}) =>
        /\ out.raised # "None"
        /\ out.fig = NoFig
        /\ ~out.created
        /\ out.built = << >>

\* C9 amended: with a required column missing, control_chart_ADTK raises KeyError
\* and returns no chart; it fails before any series or figure exists when
\* Violation or Values is missing, and otherwise after the figure was created,
\* with the line series of the columns read before the missing one built
\* (1 for Median, 2 for UCL, 3 for LCL) and lost with the exception.
C9_FailsWithoutChart ==
    (IsControlCall /\ MissingCols # {}) =>
        /\ out.raised = "KeyError"
        /\ out.fig = NoFig
        /\ IF ColViolation \in MissingCols \/ ColValues \in MissingCols
           THEN ~out.created /\ out.built = << >>
           ELSE /\ out.created
                /\ Len(out.built) = IF ColMedian \in MissingCols THEN 1
                                    ELSE IF ColUCL \in MissingCols THEN 2 ELSE 3

\* The call on a table without Median: it failed with the figure already created.
C9_Witness ==
    /\ IsControlCall
    /\ MissingCols = {ColMedian}
    /\ out.raised = "KeyError"
    /\ out.created
    /\ Len(out.built) = 1

IsBar == out.raised = "None" /\ out.fig.kind = "bar"

Abs(n) == IF n < 0 THEN -n ELSE n

InCol(c) == self_df.cols[c]

AggCol(c) == out.fig.data.cols[c]

\* The input rows whose primary cell is p, and those that also have secondary cell q.
RowsOf(p) == {i \in 1..NRows(self_df) : InCol(out.call.x)[i] = p}

RowsOfPair(p, q) == {i \in RowsOf(p) : InCol(out.call.color.val)[i] = q}

\* C2: with a color column the aggregate of barplot has exactly one row per
\* (primary, secondary) combination that occurs in the data, its Count is the
\* number of input rows with the combination, and its Percentage is
\* 100 * Count / (rows with that primary value) rounded to 2 decimals; for
\* x = [1,1,1,2,2,3], c = [A,A,B,A,B,B] the counts are 2, 1 | 1, 1 | 1 and the
\* percentages 66.67, 33.33 | 50.0, 50.0 | 100.0.
C2_ColorAggregate ==
    (IsBar /\ Truthy(out.call.color)) =>
        LET xs == AggCol(out.call.x)
            cs == AggCol(out.call.color.val)
            cnt == AggCol(ColCount)
            pct == AggCol(ColPercentage)
            combos == {<<InCol(out.call.x)[i], InCol(out.call.color.val)[i]>>
                          : i \in 1..NRows(self_df)}
        IN /\ {<<xs[k], cs[k]>> : k \in DOMAIN xs} = combos
           /\ Len(xs) = Cardinality(combos)
           /\ \A k \in DOMAIN xs :
                /\ cnt[k] = Cardinality(RowsOfPair(xs[k], cs[k]))
                /\ cnt[k] > 0
                /\ 2 * Abs(pct[k] * Cardinality(RowsOf(xs[k])) - 10000 * cnt[k])
                      <= Cardinality(RowsOf(xs[k]))
           /\ (/\ InCol(out.call.x) = <<1, 1, 1, 2, 2, 3>>
               /\ InCol(out.call.color.val) = <<1, 1, 2, 1, 2, 2>>)
              => /\ xs = <<1, 1, 2, 2, 3>>
                 /\ cs = <<1, 2, 1, 2, 2>>
                 /\ cnt = <<2, 1, 1, 1, 1>>
                 /\ pct = <<6667, 3333, 5000, 5000, 10000>>

\* The aggregate of the example table x = [1,1,1,2,2,3], c = [A,A,B,A,B,B].
C2_Witness ==
    /\ IsBar
    /\ Truthy(out.call.color)
    /\ InCol(ColX) = <<1, 1, 1, 2, 2, 3>>
    /\ InCol(ColC) = <<1, 1, 2, 1, 2, 2>>
    /\ AggCol(ColPercentage) = <<6667, 3333, 5000, 5000, 10000>>

\* The sum of the percentages of the aggregate rows of primary value p, and their number.
PctSum(p) ==
    SumSeq([k \in 1..Len(AggCol(out.call.x)) |->
               IF AggCol(out.call.x)[k] = p THEN AggCol(ColPercentage)[k] ELSE 0])

NumSecondary(p) ==
    Cardinality({k \in 1..Len(AggCol(out.call.x)) : AggCol(out.call.x)[k] = p})

\* C3 as claimed: with a color column, the rounded percentages of every primary
\* value sum to 100 within 0.01, whatever the number of secondary categories.
C3_SumWithinOneHundredth ==
    (IsBar /\ Truthy(out.call.color)) =>
        \A p \in RangeOf(InCol(out.call.x)) : Abs(PctSum(p) - 10000) <= 1

\* C3 amended: with a color column, the rounded percentages of every primary
\* value sum to 100 within 0.005 times the number of that value's secondary
\* categories, hence within 0.01 when it has at most three of them.
C3_SumWithinHalfPerCategory ==
    (IsBar /\ Truthy(out.call.color)) =>
        \A p \in RangeOf(InCol(out.call.x)) :
            /\ 2 * Abs(PctSum(p) - 10000) <= NumSecondary(p)
            /\ NumSecondary(p) <= 3 => Abs(PctSum(p) - 10000) <= 1

\* A primary value with three secondary categories of one row each: 3 * 33.33.
C3_Witness ==
    /\ IsBar
    /\ Truthy(out.call.color)
    /\ \E p \in RangeOf(InCol(ColX)) : NumSecondary(p) = 3 /\ PctSum(p) = 9999

\* C4: without a color column the aggregate of barplot has one row per distinct
\* primary category, whose Percentage is 100 * count / (number of rows), so that
\* the percentages sum to 100 within 0.01.
C4_BasicPercentage ==
    (IsBar /\ ~Truthy(out.call.color)) =>
        LET xs == AggCol(out.call.x)
            cnt == AggCol(ColCount)
            pct == AggCol(ColPercentage)
        IN /\ RangeOf(xs) = RangeOf(InCol(out.call.x))
           /\ Len(xs) = Cardinality(RangeOf(xs))
           /\ \A k \in DOMAIN xs :
                2 * Abs(pct[k] * NRows(self_df) - 10000 * cnt[k]) <= NRows(self_df)
           /\ Abs(SumSeq(pct) - 10000) <= 1

TitledBuilders == {"histogram", "barplot", "scatterplot", "linechart"}

IsTitledChart == out.raised = "None" /\ out.call.fn \in TitledBuilders

\* C5: with has_title false, the chart of histogram, barplot, scatterplot and
\* linechart has no title: neither the default nor a supplied title reaches it.
C5_NoTitleWhenDisabled ==
    (IsTitledChart /\ ~out.call.has_title) => out.fig.title = None

Cleaned(c) == CleanName(DropSeps(c))

DefaultTitle ==
    IF out.call.fn = "histogram" THEN <<"Histogram of ">> \o Cleaned(out.call.x)
    ELSE IF out.call.fn = "scatterplot"
    THEN <<"Scatter Plot of ">> \o Cleaned(out.call.x) \o <<" and ">> \o Cleaned(out.call.y)
    ELSE IF out.call.fn = "linechart" THEN <<"Time Series of ">> \o Cleaned(out.call.y)
    ELSE IF Truthy(out.call.color)
    THEN <<"Bar Plot of ">> \o Cleaned(out.call.x) \o <<" and ">> \o Cleaned(out.call.color.val)
    ELSE <<"Bar plot of ">> \o Cleaned(out.call.x)

\* C6: with has_title true, the chart of histogram, barplot, scatterplot and
\* linechart is titled with the supplied title when one (non-empty) is given,
\* and otherwise with the builder's default made of the cleaned column names.
C6_TitleWhenEnabled ==
    (IsTitledChart /\ out.call.has_title) =>
        /\ Truthy(out.call.title) => out.fig.title = out.call.title
        /\ ~Truthy(out.call.title) => out.fig.title = Some(DefaultTitle)
        /\ out.call.title = Some(<<"T">>) => out.fig.title # Some(DefaultTitle)

\* A histogram with its default title, and the name cleaned in it.
C6_Witness ==
    /\ IsTitledChart
    /\ out.call.fn = "histogram"
    /\ out.call.has_title
    /\ out.call.title = None
    /\ out.fig.title = Some(<<"Histogram of ", "x", "_", "1">>)

\* C7: no builder call changes the table the caller handed to the constructor.
C7_CallerTableUnchanged == [][self_df' = self_df]_vars

\* A scatter plot whose plotted x values were jittered away from the caller's.
C7_Witness ==
    /\ out.raised = "None"
    /\ out.call.fn = "scatterplot"
    /\ out.call.jitter
    /\ out.fig.data.cols[out.fig.x] # self_df.cols[out.call.x]
    /\ out.fig.data.obj = "copy"

\* C8: scatterplot with jitter = true and jitter_sd = 0 succeeds and plots the
\* input's x and y values unchanged, row for row.
C8_ZeroJitterKeepsValues ==
    (/\ out.call.fn = "scatterplot"
     /\ out.call.jitter
     /\ out.call.jitter_sd = 0
     /\ HasCol(self_df, out.call.x)
     /\ HasCol(self_df, out.call.y))
    => /\ out.raised = "None"
       /\ out.fig.data.cols[out.fig.x] = self_df.cols[out.call.x]
       /\ out.fig.data.cols[out.fig.y] = self_df.cols[out.call.y]

ValueColumn == IF out.call.is_percent THEN ColPercentage ELSE ColCount

\* The value column is on x and the category on y exactly when is_horizontal.
BarAxes(value) ==
    /\ out.fig.x = (IF out.call.is_horizontal THEN value ELSE Cleaned(out.call.x))
    /\ out.fig.y = (IF out.call.is_horizontal THEN Cleaned(out.call.x) ELSE value)

BarLabels(value) ==
    out.fig.text = (IF out.call.show_num THEN Some(AggCol(value)) ELSE None)

\* C10 as claimed: with and without a color column the value axis of barplot
\* carries Percentage exactly when is_percent, it is x exactly when
\* is_horizontal, and the labels are the value column exactly when show_num.
C10_WiringAlways == IsBar => BarAxes(ValueColumn) /\ BarLabels(ValueColumn)

C10_Wiring ==
    IsBar => IF Truthy(out.call.color)
             THEN BarAxes(ValueColumn) /\ BarLabels(ValueColumn)
             ELSE BarAxes(ColCount) /\ out.fig.text = None

C10_SameRows ==
    (/\ IsBar
     /\ IsBar'
     /\ out'.call.x = out.call.x
     /\ out'.call.color = out.call.color)
    => out'.fig.data = out.fig.data

\* C10 amended: with a color column the value axis of barplot carries Percentage
\* exactly when is_percent and Count otherwise, and the labels are the value
\* column exactly when show_num; without a color column the value axis carries
\* Count and there are no labels, whatever is_percent and show_num are; in both
\* cases the value axis is x exactly when is_horizontal, and the aggregate rows
\* are the same in all 8 combinations.
C10_WiringByColor == [](C10_Wiring) /\ [][C10_SameRows]_vars

\* The horizontal percentage plot with labels.
C10_Witness ==
    /\ IsBar
    /\ Truthy(out.call.color)
    /\ out.call.is_horizontal
    /\ out.call.is_percent
    /\ out.call.show_num
    /\ out.fig.x = ColPercentage
    /\ out.fig.text = Some(<<6667, 3333, 5000, 5000, 10000>>)

\* C11: in the chart of control_chart_ADTK each of the four marker series
\* (combined, low, medium, high) takes its x (timestamps) and its y (Values)
\* from the same rows: it has as many y as x entries, and its i-th y is the
\* Values cell of the row whose timestamp is its i-th x.
C11_MarkersFromSameRows ==
    IsControlChart =>
        \A k \in 5..8 :
            LET t == out.fig.traces[k] IN
            /\ Len(t.y) = Len(t.x)
            /\ \A i \in DOMAIN t.x :
                  /\ i \in DOMAIN t.y
                  /\ t.y[i] = self_df.cols[ColValues][t.x[i]]

====
